---- MODULE Spec2Model ----
(***************************************************************************)
(* A model of mcp-reddit-dahab-server/reddit_mcp_scraper.py: the run of    *)
(* main() and scrape_reddit_mcp() as a state machine, with the pure text   *)
(* helpers (strip, lower, re.findall, dict.fromkeys, slicing and the       *)
(* nested extract_comment_bodies) as operators.                            *)
(*                                                                         *)
(* Python strings are sequences of one-character strings, so that strip()  *)
(* and lower() are computed and not assumed.  A parsed JSON value is a     *)
(* record tagged by its Python type in field t.                            *)
(***************************************************************************)
EXTENDS Integers, Sequences, FiniteSets, TLC

\* ------------------------------------------------------------------------
\* Bounds of the model
\* ------------------------------------------------------------------------

\* number of ids in the listing of the large forum (pauses at 10 and 20)
BigBatch == 21

\* largest number of listing fragments concatenated into one listing text
MaxFragments == 3

\* largest post_limit tried on the id extraction (the smallest is -2)
MaxCap == 3

\* largest number of comment nodes in a generated comment forest
MaxNodes == 3

\* largest number of characters of a generated forum reference
MaxUrlLen == 4

\* ------------------------------------------------------------------------
\* Program constants
\* ------------------------------------------------------------------------

\* idx % 10 == 0
PauseEvery == 10

\* post_limit = int(sys.argv[2]) if len(sys.argv) > 2 else 100
DefaultLimit == 100

\* "limit": min(post_limit, 100)
PageSize == 100

\* ------------------------------------------------------------------------
\* Python strings
\* ------------------------------------------------------------------------

Lowers == <<"a","b","c","d","e","f","g","h","i","j","k","l","m",
            "n","o","p","q","r","s","t","u","v","w","x","y","z">>

Uppers == <<"A","B","C","D","E","F","G","H","I","J","K","L","M",
            "N","O","P","Q","R","S","T","U","V","W","X","Y","Z">>

Digits == <<"0","1","2","3","4","5","6","7","8","9">>

Range(s) == {s[i] : i \in DOMAIN s}

\* the characters str.strip() removes
Whitespace == {" ", "\t", "\n", "\r"}

RECURSIVE lstrip(_)
lstrip(s) ==
  IF s # <<>> /\ Head(s) \in Whitespace THEN lstrip(Tail(s)) ELSE s

RECURSIVE rstrip(_)
rstrip(s) ==
  IF s # <<>> /\ s[Len(s)] \in Whitespace
    THEN rstrip(SubSeq(s, 1, Len(s) - 1))
    ELSE s

\* str.strip()
strip(s) == rstrip(lstrip(s))

lower_char(c) ==
  IF \E i \in DOMAIN Uppers : Uppers[i] = c
    THEN Lowers[CHOOSE i \in DOMAIN Uppers : Uppers[i] = c]
    ELSE c

\* str.lower()
lower(s) == [i \in DOMAIN s |-> lower_char(s[i])]

\* needle in haystack, for two strings
Substring(needle, hay) ==
  \E i \in 1..(Len(hay) - Len(needle) + 1) :
     SubSeq(hay, i, i + Len(needle) - 1) = needle

\* the strings the model uses
S_empty    == <<>>
S_Hi       == <<"H","i">>
S_hello    == <<"h","e","l","l","o">>
S_nice     == <<"n","i","c","e">>
S_Body     == <<"B","o","d","y">>
S_none     == <<"n","o","n","e">>
S_na       == <<"n","/","a">>
S_deleted  == <<"[","d","e","l","e","t","e","d","]">>
S_removed  == <<"[","r","e","m","o","v","e","d","]">>
S_title    == <<"t","i","t","l","e">>
S_None     == <<"N","o","n","e">>
S_Deleted  == <<"[","D","e","l","e","t","e","d","]">>
S_blank    == <<" "," ">>

Padded(s) == <<" ">> \o s \o <<" ", "\n">>

\* ------------------------------------------------------------------------
\* Parsed JSON values (what json.loads returns)
\* ------------------------------------------------------------------------

\* a key the dict does not have
Absent == [t |-> "absent"]

JNull == [t |-> "null"]
JNum(n) == [t |-> "num", n |-> n]
JStr(s) == [t |-> "str", s |-> s]
JList(items) == [t |-> "list", items |-> items]

\* A dict, on the keys the program reads; a key it lacks maps to Absent.
Keys == {"title", "selftext", "body", "text", "replies"}

JDict(title, selftext, body, text, replies) ==
  [t |-> "dict", title |-> title, selftext |-> selftext, body |-> body,
   text |-> text, replies |-> replies]

EmptyDict == JDict(Absent, Absent, Absent, Absent, Absent)

\* key in data, for a dict
HasKey(d, k) == d[k] # Absent

\* bool(v)
Truthy(v) ==
  CASE v.t = "null" -> FALSE
    [] v.t = "num"  -> v.n # 0
    [] v.t = "str"  -> v.s # <<>>
    [] v.t = "list" -> v.items # <<>>
    [] v.t = "dict" -> \E k \in Keys : HasKey(v, k)

\* a or b
PyOr(a, b) == IF Truthy(a) THEN a ELSE b

\* data.get(k, default); data.get(k) has the default None
Get(d, k, default) == IF HasKey(d, k) THEN d[k] ELSE default

\* ------------------------------------------------------------------------
\* main(): int(sys.argv[2])
\* ------------------------------------------------------------------------

DigitValue(c) == (CHOOSE i \in DOMAIN Digits : Digits[i] = c) - 1

RECURSIVE DecimalValue(_)
DecimalValue(ds) ==
  IF ds = <<>> THEN 0
  ELSE 10 * DecimalValue(SubSeq(ds, 1, Len(ds) - 1)) + DigitValue(ds[Len(ds)])

\* int(s): surrounding whitespace and one sign are accepted; anything but
\* decimal digits after that is a ValueError.
int(s) ==
  LET body   == strip(s)
      signed == body # <<>> /\ Head(body) \in {"-", "+"}
      ds     == IF signed THEN Tail(body) ELSE body
  IN IF ds = <<>> \/ \E i \in DOMAIN ds : ds[i] \notin Range(Digits)
       THEN [exc |-> "ValueError", n |-> 0]
       ELSE [exc |-> "none",
             n |-> IF signed /\ Head(body) = "-" THEN 0 - DecimalValue(ds)
                   ELSE DecimalValue(ds)]

\* ------------------------------------------------------------------------
\* The forum reference: extract_subreddit_name (lines 10-23)
\* ------------------------------------------------------------------------

\* str.find(c): the first position of a character of cs in s, 0 when none
RECURSIVE FindFrom(_, _, _)
FindFrom(s, cs, i) ==
  IF i > Len(s) THEN 0
  ELSE IF s[i] \in cs THEN i
  ELSE FindFrom(s, cs, i + 1)

Find(s, cs) == FindFrom(s, cs, 1)

\* url.startswith(prefix)
startswith(s, prefix) ==
  Len(s) >= Len(prefix) /\ SubSeq(s, 1, Len(prefix)) = prefix

\* s[n:]
slice_from(s, n) == SubSeq(s, n + 1, Len(s))

\* the characters urllib.parse accepts in a scheme
SchemeChars == Range(Lowers) \cup Range(Uppers) \cup Range(Digits)
                 \cup {"+", "-", "."}

Letters == Range(Lowers) \cup Range(Uppers)

\* urlsplit: "scheme:" is taken off when the text before the first colon is
\* a letter followed by scheme characters
after_scheme(url) ==
  LET i == Find(url, {":"})
  IN IF /\ i > 1
        /\ url[1] \in Letters
        /\ \A k \in 1..(i - 1) : url[k] \in SchemeChars
       THEN SubSeq(url, i + 1, Len(url))
       ELSE url

\* urlsplit: "//netloc" is taken off up to the next "/", "?" or "#"; a netloc
\* with one square bracket and not the other is a ValueError
after_netloc(rest) ==
  IF startswith(rest, <<"/", "/">>)
    THEN LET tail   == slice_from(rest, 2)
             delim  == Find(tail, {"/", "?", "#"})
             netloc == IF delim = 0 THEN tail ELSE SubSeq(tail, 1, delim - 1)
         IN IF ("[" \in Range(netloc)) # ("]" \in Range(netloc))
              THEN [exc |-> "ValueError", rest |-> <<>>]
              ELSE [exc |-> "none",
                    rest |-> IF delim = 0 THEN <<>>
                             ELSE SubSeq(tail, delim, Len(tail))]
    ELSE [exc |-> "none", rest |-> rest]

\* urlparse(url).path, for a url without whitespace, control characters
\* and ";": what is left of the url after the scheme and the netloc, up to
\* the first "#" or "?"
urlparse_path(url) ==
  LET located == after_netloc(after_scheme(url))
      cut     == Find(located.rest, {"#", "?"})
  IN IF located.exc # "none" THEN [exc |-> located.exc, path |-> <<>>]
     ELSE [exc |-> "none",
           path |-> IF cut = 0 THEN located.rest
                    ELSE SubSeq(located.rest, 1, cut - 1)]

\* path.strip('/')
RECURSIVE strip_slashes(_)
strip_slashes(s) ==
  IF s # <<>> /\ Head(s) = "/" THEN strip_slashes(Tail(s))
  ELSE IF s # <<>> /\ s[Len(s)] = "/"
    THEN strip_slashes(SubSeq(s, 1, Len(s) - 1))
  ELSE s

\* s.split('/'): the parts between the slashes, empty ones included
RECURSIVE split_slash(_)
split_slash(s) ==
  LET j == Find(s, {"/"})
  IN IF j = 0 THEN <<s>>
     ELSE <<SubSeq(s, 1, j - 1)>> \o split_slash(SubSeq(s, j + 1, Len(s)))

\* path_parts.index('r'), 0 when 'r' is no part
index_of_r(path_parts) ==
  IF \E k \in DOMAIN path_parts : path_parts[k] = <<"r">>
    THEN CHOOSE k \in DOMAIN path_parts :
           /\ path_parts[k] = <<"r">>
           /\ \A j \in 1..(k - 1) : path_parts[j] # <<"r">>
    ELSE 0

\* lines 10-23: the name, or the exception of urlparse
extract_subreddit_name(url) ==
  IF startswith(url, <<"r", "/">>)
    THEN [exc |-> "none", name |-> slice_from(url, 2)]
  ELSE
    LET parsed     == urlparse_path(url)
        path_parts == split_slash(strip_slashes(parsed.path))
        r_index    == index_of_r(path_parts)
    IN IF parsed.exc # "none" THEN [exc |-> parsed.exc, name |-> <<>>]
       ELSE IF r_index > 0 /\ r_index < Len(path_parts)
         THEN [exc |-> "none", name |-> path_parts[r_index + 1]]
       ELSE [exc |-> "none", name |-> url]

\* ------------------------------------------------------------------------
\* Listing ids: re.findall, dict.fromkeys, [:post_limit]
\* ------------------------------------------------------------------------

S_comments == <<"/","c","o","m","m","e","n","t","s","/">>

\* [a-zA-Z0-9]
Alnum == Range(Lowers) \cup Range(Uppers) \cup Range(Digits)

\* the length of the longest run of [a-zA-Z0-9] that starts at text[j]
RECURSIVE AlnumRun(_, _)
AlnumRun(text, j) ==
  IF j <= Len(text) /\ text[j] \in Alnum THEN 1 + AlnumRun(text, j + 1) ELSE 0

\* Whether r'/comments/([a-zA-Z0-9]+)/' matches at position i. The greedy run
\* must be followed by "/": a shorter run is followed by an alphanumeric, so
\* backtracking finds no other match.
MatchesAt(text, i) ==
  LET j == i + Len(S_comments)
      k == AlnumRun(text, j)
  IN /\ j - 1 <= Len(text)
     /\ SubSeq(text, i, j - 1) = S_comments
     /\ k >= 1
     /\ j + k <= Len(text)
     /\ text[j + k] = "/"

\* the group of the match at i, and the position after the match
GroupAt(text, i) ==
  LET j == i + Len(S_comments) IN SubSeq(text, j, j + AlnumRun(text, j) - 1)

AfterMatch(text, i) ==
  LET j == i + Len(S_comments) IN j + AlnumRun(text, j) + 1

\* re.findall from position i: the non-overlapping matches, left to right
RECURSIVE findall_from(_, _)
findall_from(text, i) ==
  IF i > Len(text) THEN <<>>
  ELSE IF MatchesAt(text, i)
    THEN <<GroupAt(text, i)>> \o findall_from(text, AfterMatch(text, i))
    ELSE findall_from(text, i + 1)

\* re.findall(r'/comments/([a-zA-Z0-9]+)/', response_text)
findall(text) == findall_from(text, 1)

\* list(dict.fromkeys(xs)): the first occurrence of every element, in order
RECURSIVE fromkeys_onto(_, _)
fromkeys_onto(seen, xs) ==
  IF xs = <<>> THEN seen
  ELSE fromkeys_onto(IF Head(xs) \in Range(seen) THEN seen
                     ELSE Append(seen, Head(xs)), Tail(xs))

\* the matches as they are, nothing removed
fromkeys_keeping_all(xs) == xs

fromkeys(xs) == fromkeys_onto(<<>>, xs)

\* xs[:n]: a negative n counts from the end
slice_to(xs, n) ==
  IF n >= 0
    THEN SubSeq(xs, 1, IF n < Len(xs) THEN n ELSE Len(xs))
    ELSE SubSeq(xs, 1, IF Len(xs) + n > 0 THEN Len(xs) + n ELSE 0)

\* lines 59-60
extract_post_ids(response_text, post_limit) ==
  slice_to(fromkeys(findall(response_text)), post_limit)

\* ------------------------------------------------------------------------
\* Post content: title and body (lines 85-96)
\* ------------------------------------------------------------------------

BodySentinels == {S_none, S_na, S_deleted, S_removed, S_empty}

\* body_text = post_data.get('selftext') or post_data.get('body')
\*             or post_data.get('text', '')
body_text_of(post_data) ==
  PyOr(PyOr(Get(post_data, "selftext", JNull), Get(post_data, "body", JNull)),
       Get(post_data, "text", JStr(S_empty)))

\* lines 88-91 without the test of line 90
title_part_untested(post_data) ==
  IF ~HasKey(post_data, "title") THEN [exc |-> "none", entries |-> <<>>]
  ELSE IF post_data.title.t # "str"
    THEN [exc |-> "AttributeError", entries |-> <<>>]
  ELSE [exc |-> "none",
        entries |-> <<[text |-> strip(post_data.title.s), kind |-> "title"]>>]

\* lines 88-91: the title entry, or the exception of post_data['title'].strip()
title_part(post_data) ==
  IF ~HasKey(post_data, "title") THEN [exc |-> "none", entries |-> <<>>]
  ELSE IF post_data.title.t # "str"
    THEN [exc |-> "AttributeError", entries |-> <<>>]
  ELSE LET title == strip(post_data.title.s)
       IN [exc |-> "none",
           entries |-> IF title # <<>> THEN <<[text |-> title, kind |-> "title"]>>
                       ELSE <<>>]

\* the condition of line 95, for a body_text that is a string
body_kept(s) == s # <<>> /\ strip(s) # <<>> /\ lower(s) \notin BodySentinels

\* lines 94-96: the body entry, or the exception of body_text.strip()
body_part(post_data) ==
  LET body_text == body_text_of(post_data)
  IN IF ~Truthy(body_text) THEN [exc |-> "none", entries |-> <<>>]
     ELSE IF body_text.t # "str"
       THEN [exc |-> "AttributeError", entries |-> <<>>]
     ELSE [exc |-> "none",
           entries |-> IF body_kept(body_text.s)
                         THEN <<[text |-> strip(body_text.s), kind |-> "body"]>>
                         ELSE <<>>]

\* lines 85-98 with the body collected before the title
collect_post_body_first(post_data) ==
  IF post_data.t = "dict" THEN
    LET tp == title_part(post_data)
        bp == body_part(post_data)
    IN IF bp.exc # "none" THEN bp
       ELSE [exc |-> tp.exc, entries |-> bp.entries \o tp.entries]
  ELSE [exc |-> "TypeError", entries |-> <<>>]

\* Lines 85-98 on a parsed post_data: the entries appended, in order, and the
\* exception that ended the block, if any. 'title' in post_data raises
\* TypeError on a number or null; on a list or a string it is a membership or
\* substring test, after which post_data['title'] raises TypeError or
\* post_data.get raises AttributeError.
collect_post(post_data) ==
  IF post_data.t = "dict" THEN
    LET tp == title_part(post_data)
        bp == body_part(post_data)
    IN IF tp.exc # "none" THEN tp
       ELSE [exc |-> bp.exc, entries |-> tp.entries \o bp.entries]
  ELSE IF post_data.t = "list" THEN
    [exc |-> IF JStr(S_title) \in Range(post_data.items)
               THEN "TypeError" ELSE "AttributeError",
     entries |-> <<>>]
  ELSE IF post_data.t = "str" THEN
    [exc |-> IF Substring(S_title, post_data.s)
               THEN "TypeError" ELSE "AttributeError",
     entries |-> <<>>]
  ELSE [exc |-> "TypeError", entries |-> <<>>]

\* ------------------------------------------------------------------------
\* Comments: extract_comment_bodies (lines 118-132)
\* ------------------------------------------------------------------------

CommentTombstones == {S_deleted, S_removed, S_empty}

KeyOrder == <<"title", "selftext", "body", "text", "replies">>

KeyChars(k) ==
  CASE k = "title"    -> S_title
    [] k = "selftext" -> <<"s","e","l","f","t","e","x","t">>
    [] k = "body"     -> <<"b","o","d","y">>
    [] k = "text"     -> <<"t","e","x","t">>
    [] k = "replies"  -> <<"r","e","p","l","i","e","s">>

\* what "for reply in v" yields: the items of a list, the characters of a
\* string, the keys of a dict; a number is not iterable (TypeError)
Iterable(v) == v.t \in {"list", "str", "dict"}

Iterate(v) ==
  CASE v.t = "list" -> v.items
    [] v.t = "str"  -> [i \in DOMAIN v.s |-> JStr(<<v.s[i]>>)]
    [] v.t = "dict" ->
         LET present == SelectSeq(KeyOrder, LAMBDA k : HasKey(v, k))
         IN [i \in DOMAIN present |-> JStr(KeyChars(present[i]))]

RECURSIVE extract_comment_bodies(_)
RECURSIVE extract_each(_)

\* bodies.extend(extract_comment_bodies(item)) for every item, in order; an
\* exception in one item ends the walk
extract_each(items) ==
  IF items = <<>> THEN [exc |-> "none", bodies |-> <<>>]
  ELSE LET first == extract_comment_bodies(Head(items))
       IN IF first.exc # "none" THEN [exc |-> first.exc, bodies |-> <<>>]
          ELSE LET rest == extract_each(Tail(items))
               IN IF rest.exc # "none" THEN [exc |-> rest.exc, bodies |-> <<>>]
                  ELSE [exc |-> "none", bodies |-> first.bodies \o rest.bodies]

\* a walk that does not descend below a comment whose own body is dropped
extract_comment_bodies_pruning(data) ==
  IF data.t = "dict" THEN
    IF HasKey(data, "body") /\ data.body.t # "str"
      THEN [exc |-> "AttributeError", bodies |-> <<>>]
    ELSE
      LET body == IF HasKey(data, "body") THEN strip(data.body.s) ELSE <<>>
          own  == IF HasKey(data, "body") /\ body # <<>>
                     /\ body \notin CommentTombstones
                    THEN <<body>> ELSE <<>>
      IN IF own # <<>> /\ HasKey(data, "replies") /\ Truthy(data.replies)
           THEN IF ~Iterable(data.replies)
                  THEN [exc |-> "TypeError", bodies |-> <<>>]
                  ELSE LET sub == extract_each(Iterate(data.replies))
                       IN IF sub.exc # "none" THEN sub
                          ELSE [exc |-> "none", bodies |-> own \o sub.bodies]
           ELSE [exc |-> "none", bodies |-> own]
  ELSE IF data.t = "list" THEN extract_each(data.items)
  ELSE [exc |-> "none", bodies |-> <<>>]

extract_comment_bodies(data) ==
  IF data.t = "dict" THEN
    IF HasKey(data, "body") /\ data.body.t # "str"
      THEN [exc |-> "AttributeError", bodies |-> <<>>]
    ELSE
      LET body == IF HasKey(data, "body") THEN strip(data.body.s) ELSE <<>>
          own  == IF HasKey(data, "body") /\ body # <<>>
                     /\ body \notin CommentTombstones
                    THEN <<body>> ELSE <<>>
      IN IF HasKey(data, "replies") /\ Truthy(data.replies)
           THEN IF ~Iterable(data.replies)
                  THEN [exc |-> "TypeError", bodies |-> <<>>]
                  ELSE LET sub == extract_each(Iterate(data.replies))
                       IN IF sub.exc # "none" THEN sub
                          ELSE [exc |-> "none", bodies |-> own \o sub.bodies]
           ELSE [exc |-> "none", bodies |-> own]
  ELSE IF data.t = "list" THEN extract_each(data.items)
  ELSE [exc |-> "none", bodies |-> <<>>]

\* lines 138-140: the bodies that pass "if body.strip()"
appended_bodies(comment_bodies) ==
  SelectSeq(comment_bodies, LAMBDA body : strip(body) # <<>>)

\* ------------------------------------------------------------------------
\* The tool-calling collaborator
\* ------------------------------------------------------------------------

\* session.call_tool either raises or returns a result whose content is a
\* list; the program reads content[0].text.
Raise == [kind |-> "raise"]
Result(content) == [kind |-> "result", content |-> content]

\* The text of a get_post_content / get_post_comments result, by the two
\* things the program asks of it: whether "Error processing" occurs in it, and
\* what json.loads makes of it (Invalid: json.loads raises JSONDecodeError).
Invalid == [t |-> "invalid"]
Text(marker, doc) == [marker |-> marker, doc |-> doc]

\* "Error processing" in text
has_error_marker(text) == text.marker

\* json.loads(text)
json_loads(text) ==
  IF text.doc = Invalid THEN [exc |-> "JSONDecodeError", value |-> JNull]
  ELSE [exc |-> "none", value |-> text.doc]

\* The exceptions of the model; each is a subclass of Exception.
Exceptions ==
  {"McpError", "JSONDecodeError", "TypeError", "AttributeError", "ValueError"}

\* except json.JSONDecodeError (lines 100 and 144)
catches_json_error(exc) == exc = "JSONDecodeError"

\* except Exception (line 150)
catches_comments_error(exc) == exc \in Exceptions

\* a handler at line 158 that names json.JSONDecodeError only
catches_post_error_narrow(exc) == exc = "JSONDecodeError"

\* except Exception (line 158)
catches_post_error(exc) == exc \in Exceptions

\* the raw text of a result, as an entry
S_raw == <<"{","r","a","w">>

\* lines 70-102 with the raw text appended when it does not parse
content_block_raw_fallback(reply) ==
  IF reply.kind = "raise"
    THEN [end |-> "raised", exc |-> "McpError", entries |-> <<>>]
  ELSE IF reply.content = <<>>
    THEN [end |-> "empty", exc |-> "none", entries |-> <<>>]
  ELSE IF has_error_marker(reply.content[1])
    THEN [end |-> "sentinel", exc |-> "none", entries |-> <<>>]
  ELSE
    LET parsed == json_loads(reply.content[1])
        got    == collect_post(parsed.value)
    IN IF parsed.exc # "none"
         THEN [end |-> "unparsed", exc |-> "none",
               entries |-> <<[text |-> S_raw, kind |-> "body"]>>]
         ELSE [end |-> IF got.exc = "none" THEN "ok" ELSE "shape",
               exc |-> IF catches_json_error(got.exc) THEN "none" ELSE got.exc,
               entries |-> got.entries]

\* Lines 70-102, the content part of the try block of one id: the entries
\* appended, how the part ended, and the exception that leaves it.
content_block(reply) ==
  IF reply.kind = "raise"
    THEN [end |-> "raised", exc |-> "McpError", entries |-> <<>>]
  ELSE IF reply.content = <<>>
    THEN [end |-> "empty", exc |-> "none", entries |-> <<>>]
  ELSE IF has_error_marker(reply.content[1])
    THEN [end |-> "sentinel", exc |-> "none", entries |-> <<>>]
  ELSE
    LET parsed == json_loads(reply.content[1])
        got    == collect_post(parsed.value)
    IN IF parsed.exc # "none"
         THEN [end |-> "unparsed",
               exc |-> IF catches_json_error(parsed.exc) THEN "none"
                       ELSE parsed.exc,
               entries |-> <<>>]
         ELSE [end |-> IF got.exc = "none" THEN "ok" ELSE "shape",
               exc |-> IF catches_json_error(got.exc) THEN "none" ELSE got.exc,
               entries |-> got.entries]

\* lines 134-146 with each top-level comment appended as soon as it is
\* walked: a walk that raises leaves the bodies of the comments before
comments_parse_streaming(text) ==
  LET parsed == json_loads(text)
      walk   == extract_comment_bodies(parsed.value)
      doc    == parsed.value
      early  == IF doc.t = "list" /\ doc.items # <<>>
                   /\ extract_comment_bodies(Head(doc.items)).exc = "none"
                  THEN extract_comment_bodies(Head(doc.items)).bodies
                  ELSE <<>>
      kept   == appended_bodies(IF walk.exc = "none" THEN walk.bodies
                                ELSE early)
  IN IF parsed.exc # "none"
       THEN [end |-> "unparsed", entries |-> <<>>, exc |-> "none"]
     ELSE [end |-> IF walk.exc = "none" THEN "ok" ELSE "walk_raised",
           exc |-> walk.exc,
           entries |-> [i \in DOMAIN kept |->
                          [text |-> kept[i], kind |-> "comment"]]]

\* Lines 134-146 on the text of the comments: the parsed tree, the entries
\* appended, how the part ended and the exception that leaves it.
comments_parse(text) ==
  LET parsed == json_loads(text)
      walk   == extract_comment_bodies(parsed.value)
      kept   == appended_bodies(walk.bodies)
  IN IF parsed.exc # "none"
       THEN [end |-> "unparsed", entries |-> <<>>,
             exc |-> IF catches_json_error(parsed.exc) THEN "none"
                     ELSE parsed.exc]
     ELSE IF walk.exc # "none"
       THEN [end |-> "walk_raised", entries |-> <<>>,
             exc |-> IF catches_json_error(walk.exc) THEN "none" ELSE walk.exc]
     ELSE [end |-> "ok", exc |-> "none",
           entries |-> [i \in DOMAIN kept |->
                          [text |-> kept[i], kind |-> "comment"]]]

\* what the handler of line 150 leaves of the outcome of lines 106-148
after_comments_handler(b) ==
  [b EXCEPT !.exc = IF catches_comments_error(b.exc) THEN "none" ELSE b.exc]

\* the comments part without the test of line 116
comments_block_unguarded(reply) ==
  after_comments_handler(
    IF reply.kind = "raise"
      THEN [end |-> "raised", exc |-> "McpError", entries |-> <<>>]
    ELSE IF reply.content = <<>>
      THEN [end |-> "empty", exc |-> "none", entries |-> <<>>]
    ELSE comments_parse(reply.content[1]))

\* Lines 105-151, the comments part of the try block of one id: the entries
\* appended, how the part ended and the exception that leaves it.
comments_block(reply) ==
  after_comments_handler(
    IF reply.kind = "raise"
      THEN [end |-> "raised", exc |-> "McpError", entries |-> <<>>]
    ELSE IF reply.content = <<>>
      THEN [end |-> "empty", exc |-> "none", entries |-> <<>>]
    ELSE IF has_error_marker(reply.content[1])
      THEN [end |-> "sentinel", exc |-> "none", entries |-> <<>>]
    ELSE comments_parse(reply.content[1]))

\* a content step without the "continue" of line 81
skips_post_never(b) == FALSE

\* lines 79-81: "continue" on the soft-error sentinel of the content
skips_post(b) == b.end = "sentinel"

\* a pause after every id
pause_due_always(i) == TRUE

\* line 154
pause_due(i) == i % PauseEvery = 0


TextsOf(entries) == [i \in DOMAIN entries |-> entries[i].text]

\* ------------------------------------------------------------------------
\* What the collaborator may answer
\* ------------------------------------------------------------------------

S_abc123 == <<"a","b","c","1","2","3">>
S_xyz789 == <<"x","y","z","7","8","9">>
S_q7     == <<"q","7">>

\* a thread link of a listing, and text between links
Link(id) == <<"r","/","d">> \o S_comments \o id \o <<"/","t"," ">>

\* the decimal digits of a positive number
RECURSIVE DecimalOf(_)
DecimalOf(n) ==
  IF n < 10 THEN <<Digits[n + 1]>>
  ELSE DecimalOf(n \div 10) \o <<Digits[(n % 10) + 1]>>

\* a listing of one bare link per line to the threads p1, p2, ..., pn
RECURSIVE NumberedListing(_)
NumberedListing(n) ==
  IF n = 0 THEN <<>>
  ELSE NumberedListing(n - 1)
         \o S_comments \o <<"p">> \o DecimalOf(n) \o <<"/", "\n">>

PostDoc(title, selftext, body, text) == JDict(title, selftext, body, text, Absent)

\* parsed get_post_content records
PostDocs ==
  { PostDoc(JStr(S_Hi), JStr(S_none), Absent, Absent),
    PostDoc(JStr(S_Hi), JStr(Padded(S_none)), Absent, Absent),
    PostDoc(JStr(S_Hi), JStr(S_None), Absent, Absent),
    PostDoc(JStr(Padded(S_Hi)), JStr(Padded(S_Body)), Absent, Absent),
    PostDoc(JStr(S_Hi), JStr(S_empty), JStr(S_Body), Absent),
    PostDoc(JStr(S_Hi), Absent, Absent, Absent),
    PostDoc(JStr(S_blank), Absent, Absent, JStr(S_deleted)),
    PostDoc(Absent, JStr(S_Deleted), Absent, Absent),
    PostDoc(JNull, JStr(S_Body), Absent, Absent),
    PostDoc(JStr(S_Hi), JNum(5), Absent, Absent),
    JList(<<>>),
    EmptyDict }

Comment(body, replies) == JDict(Absent, Absent, body, Absent, replies)

\* parsed get_post_comments trees
CommentDocs ==
  { JList(<<>>),
    JList(<<Comment(JStr(S_deleted),
                    JList(<<Comment(JStr(S_hello), JStr(S_empty))>>))>>),
    JList(<<Comment(JStr(Padded(S_nice)), JStr(S_empty)),
            Comment(JStr(S_hello),
                    JList(<<Comment(JStr(S_removed), Absent),
                            Comment(JStr(S_Hi), JList(<<>>))>>))>>),
    JList(<<Comment(JNum(5), Absent), Comment(JStr(S_hello), Absent)>>),
    JList(<<Comment(JStr(S_nice), Absent), Comment(JNull, Absent),
            Comment(JStr(S_hello), Absent)>>),
    JList(<<JNum(7), JStr(S_Body), Comment(JStr(S_hello), Absent)>>),
    Comment(JStr(S_hello), JNum(3)),
    Comment(JStr(S_nice), Comment(JStr(S_hello), Absent)) }

\* A forum: the answers the collaborator may give to each of the three tools.
SmallForum ==
  [listings |->
     { Raise, Result(<<>>),
       Result(<<Link(S_abc123) \o Link(S_abc123) \o Link(S_xyz789)>>),
       Result(<<Link(S_q7) \o Link(S_abc123) \o Link(S_xyz789)>>) },
   contents |->
     { Raise, Result(<<>>), Result(<<Text(TRUE, Invalid)>>),
       Result(<<Text(TRUE, PostDoc(JStr(S_Hi), Absent, Absent, Absent))>>),
       Result(<<Text(FALSE, Invalid)>>) }
     \cup { Result(<<Text(FALSE, d)>>) : d \in PostDocs },
   comments |->
     { Raise, Result(<<>>), Result(<<Text(TRUE, Invalid)>>),
       Result(<<Text(TRUE, JList(<<Comment(JStr(S_hello), Absent)>>))>>),
       Result(<<Text(FALSE, Invalid)>>) }
     \cup { Result(<<Text(FALSE, d)>>) : d \in CommentDocs }]

\* A forum of BigBatch threads, or of PauseEvery threads, whose posts carry
\* no text: every way a step can end, over a batch long enough for the
\* pauses, and over one that ends on a pause.
BigForum ==
  [listings |-> { Result(<<NumberedListing(BigBatch)>>),
                  Result(<<NumberedListing(PauseEvery)>>) },
   contents |->
     { Raise, Result(<<>>), Result(<<Text(TRUE, Invalid)>>),
       Result(<<Text(FALSE, Invalid)>>), Result(<<Text(FALSE, JNum(1))>>),
       Result(<<Text(FALSE, PostDoc(JStr(S_blank), Absent, Absent, Absent))>>) },
   comments |->
     { Raise, Result(<<Text(TRUE, Invalid)>>),
       Result(<<Text(FALSE, JList(<<>>))>>) }]

Forums == {SmallForum, BigForum}

\* sys.argv
S_prog == <<"s",".","p","y">>
S_url  == <<"r","/","d","a","h","a","b">>

\* a reference urlparse rejects
S_bad_url == <<"/","/","[">>

Argvs ==
  { <<S_prog>>, <<S_prog, S_url>>, <<S_prog, S_url, <<"2">>>>,
    <<S_prog, S_url, <<"x">>>>, <<S_prog, S_bad_url>> }

\* ------------------------------------------------------------------------
\* State
\* ------------------------------------------------------------------------

VARIABLES
  pc,            \* where the run is
  argv,          \* sys.argv
  forum,         \* what the collaborator may answer in this run
  post_limit,    \* main: post_limit
  subreddit_name, \* line 28
  session,       \* "none", "open" or "closed": the tool-call session
  error,         \* the uncaught exception that ended the run, and where
  exit_code,     \* the exit status of the process, -1 while it runs
  response_text, \* line 54
  post_ids,      \* line 60
  idx,           \* line 65 (0 before the loop)
  reddit_texts,  \* line 38
  origin,        \* for each entry of reddit_texts: the idx and kind appended
  fetched,       \* the post ids passed to get_post_content, in call order
  last_call,     \* the latest session.call_tool: the tool and its argument
  post_content_result, \* line 70, of the current id
  comments_result,     \* line 107, of the current id
  content_end,   \* how the content part of the current id ended
  comments_end,  \* how the comments part of the current id ended
  pauses,        \* the number of asyncio.sleep(1) so far
  written        \* the aggregates handed to DataFrame/to_csv

vars ==
  <<pc, argv, forum, post_limit, subreddit_name, session, error, exit_code,
    response_text,
    post_ids, idx, reddit_texts, origin, fetched, last_call,
    post_content_result, comments_result, content_end, comments_end, pauses,
    written>>

\* no call made (yet) for the current id
NoResult == [kind |-> "unset"]

NoCall == [tool |-> "none"]
NoError == [exc |-> "none", at |-> "none"]

InitRun ==
  /\ post_limit = 0
  /\ subreddit_name = <<>>
  /\ session = "none"
  /\ error = NoError
  /\ exit_code = -1
  /\ response_text = <<>>
  /\ post_ids = <<>>
  /\ idx = 0
  /\ reddit_texts = <<>>
  /\ origin = <<>>
  /\ fetched = <<>>
  /\ last_call = NoCall
  /\ post_content_result = NoResult
  /\ comments_result = NoResult
  /\ content_end = "none"
  /\ comments_end = "none"
  /\ pauses = 0
  /\ written = <<>>

Init ==
  /\ pc = "main"
  /\ argv \in Argvs
  /\ forum \in Forums
  /\ InitRun

\* an uncaught exception that ends the process with the session left open
Fatal_leaking(exc, at) ==
  /\ pc' = "raised"
  /\ error' = [exc |-> exc, at |-> at]
  /\ exit_code' = 1
  /\ UNCHANGED session

\* an uncaught exception leaves both "async with" blocks and ends the process
Fatal(exc, at) ==
  /\ pc' = "raised"
  /\ error' = [exc |-> exc, at |-> at]
  /\ exit_code' = 1
  /\ session' = IF session = "open" THEN "closed" ELSE session

\* lines 171-180 and 28-38: the usage exit, int(sys.argv[2]), then the name
\* of the forum
Main ==
  /\ pc = "main"
  /\ IF Len(argv) < 2
       THEN /\ pc' = "exit"
            /\ exit_code' = 1
            /\ UNCHANGED <<post_limit, subreddit_name, error, session>>
       ELSE LET limit == IF Len(argv) > 2 THEN int(argv[3])
                         ELSE [exc |-> "none", n |-> DefaultLimit]
                ref   == extract_subreddit_name(argv[2])
            IN IF limit.exc # "none"
                 THEN /\ Fatal(limit.exc, "main")
                      /\ UNCHANGED <<post_limit, subreddit_name>>
               ELSE IF ref.exc # "none"
                 THEN /\ Fatal(ref.exc, "reference")
                      /\ post_limit' = limit.n
                      /\ UNCHANGED subreddit_name
               ELSE /\ post_limit' = limit.n
                    /\ subreddit_name' = ref.name
                    /\ pc' = "connect"
                    /\ UNCHANGED <<error, exit_code, session>>
  /\ UNCHANGED <<argv, forum, response_text, post_ids, idx, reddit_texts,
                 origin, fetched, last_call, post_content_result,
                 comments_result, content_end, comments_end, pauses, written>>

\* lines 40-42: stdio_client, ClientSession, session.initialize()
Connect ==
  /\ pc = "connect"
  /\ \/ /\ session' = "open"
        /\ pc' = "listing"
        /\ UNCHANGED <<error, exit_code>>
     \/ Fatal("McpError", "connect")
  /\ UNCHANGED <<argv, forum, post_limit, subreddit_name,
                 response_text, post_ids, idx,
                 reddit_texts, origin, fetched, last_call,
                 post_content_result, comments_result, content_end,
                 comments_end, pauses, written>>

\* lines 48-54: get_subreddit_hot_posts, outside every try block
ListHotPosts ==
  /\ pc = "listing"
  /\ last_call' = [tool |-> "get_subreddit_hot_posts",
                   limit |-> IF post_limit < PageSize THEN post_limit
                             ELSE PageSize]
  /\ \E reply \in forum.listings :
       IF reply.kind = "raise"
         THEN Fatal("McpError", "listing") /\ UNCHANGED response_text
         ELSE /\ response_text' =
                   IF reply.content # <<>> THEN reply.content[1] ELSE <<>>
              /\ pc' = "extract"
              /\ UNCHANGED <<error, exit_code, session>>
  /\ UNCHANGED <<argv, forum, post_limit, subreddit_name,
                 post_ids, idx, reddit_texts, origin,
                 fetched, post_content_result, comments_result, content_end,
                 comments_end, pauses, written>>

\* lines 59-60
ExtractIds ==
  /\ pc = "extract"
  /\ post_ids' = extract_post_ids(response_text, post_limit)
  /\ pc' = "loop"
  /\ UNCHANGED <<argv, forum, post_limit, subreddit_name,
                 session, error, exit_code,
                 response_text, idx, reddit_texts, origin, fetched, last_call,
                 post_content_result, comments_result, content_end,
                 comments_end, pauses, written>>

\* Line 65: the next id of the batch, or the end of the loop (line 161) and
\* of the two "async with" blocks. The results of the previous id are dead
\* from here on and are forgotten.
LoopNext ==
  /\ pc = "loop"
  /\ IF idx < Len(post_ids)
       THEN /\ idx' = idx + 1
            /\ pc' = "content"
            /\ UNCHANGED session
       ELSE /\ pc' = "save"
            /\ session' = "closed"
            /\ UNCHANGED idx
  /\ post_content_result' = NoResult
  /\ comments_result' = NoResult
  /\ content_end' = "none"
  /\ comments_end' = "none"
  /\ UNCHANGED <<argv, forum, post_limit, subreddit_name,
                 error, exit_code, response_text,
                 post_ids, reddit_texts, origin, fetched, last_call, pauses,
                 written>>

Tagged(entries) ==
  [i \in DOMAIN entries |-> [idx |-> idx, kind |-> entries[i].kind]]

\* lines 66-102, with "continue" (line 81) and the handler of line 158
ContentStep ==
  /\ pc = "content"
  /\ last_call' = [tool |-> "get_post_content", post_id |-> post_ids[idx]]
  /\ fetched' = Append(fetched, post_ids[idx])
  /\ \E reply \in forum.contents :
       LET b == content_block(reply)
       IN /\ post_content_result' = reply
          /\ reddit_texts' = reddit_texts \o TextsOf(b.entries)
          /\ origin' = origin \o Tagged(b.entries)
          /\ content_end' = b.end
          /\ IF b.exc # "none"
               THEN IF catches_post_error(b.exc)
                      THEN /\ pc' = "loop"
                           /\ UNCHANGED <<error, exit_code, session>>
                      ELSE Fatal(b.exc, "content")
               ELSE /\ pc' = IF skips_post(b) THEN "loop" ELSE "comments"
                    /\ UNCHANGED <<error, exit_code, session>>
  /\ UNCHANGED <<argv, forum, post_limit, subreddit_name,
                 response_text, post_ids, idx,
                 comments_result, comments_end, pauses, written>>

\* lines 105-156: the comments of the id, then the test of line 154
CommentsStep ==
  /\ pc = "comments"
  /\ last_call' = [tool |-> "get_post_comments", post_id |-> post_ids[idx]]
  /\ \E reply \in forum.comments :
       LET b == comments_block(reply)
       IN /\ comments_result' = reply
          /\ reddit_texts' = reddit_texts \o TextsOf(b.entries)
          /\ origin' = origin \o Tagged(b.entries)
          /\ comments_end' = b.end
          /\ IF b.exc # "none"
               THEN IF catches_post_error(b.exc)
                      THEN /\ pc' = "loop"
                           /\ UNCHANGED <<error, exit_code, session>>
                      ELSE Fatal(b.exc, "comments")
               ELSE /\ pc' = IF pause_due(idx) THEN "pause" ELSE "loop"
                    /\ UNCHANGED <<error, exit_code, session>>
  /\ UNCHANGED <<argv, forum, post_limit, subreddit_name,
                 response_text, post_ids, idx,
                 fetched, post_content_result, content_end, pauses, written>>

\* line 156: await asyncio.sleep(1)
Pause ==
  /\ pc = "pause"
  /\ pauses' = pauses + 1
  /\ pc' = "loop"
  /\ UNCHANGED <<argv, forum, post_limit, subreddit_name,
                 session, error, exit_code,
                 response_text, post_ids, idx, reddit_texts, origin, fetched,
                 last_call, post_content_result, comments_result, content_end,
                 comments_end, written>>

\* a save that empties the list it has handed over
Save_clearing ==
  /\ pc = "save"
  /\ written' = Append(written, reddit_texts)
  /\ reddit_texts' = <<>>
  /\ origin' = <<>>
  /\ pc' = "done"
  /\ exit_code' = 0
  /\ UNCHANGED <<argv, forum, post_limit, subreddit_name, session, error,
                 response_text, post_ids, idx, fetched, last_call,
                 post_content_result, comments_result, content_end,
                 comments_end, pauses>>

\* a writer that is also handed the aggregate at every pause
Save_at_pause ==
  /\ pc \in {"save", "pause"}
  /\ written' = Append(written, reddit_texts)
  /\ pc' = IF pc = "save" THEN "done" ELSE "loop"
  /\ exit_code' = IF pc = "save" THEN 0 ELSE exit_code
  /\ UNCHANGED <<argv, forum, post_limit, subreddit_name, session, error,
                 response_text, post_ids, idx, reddit_texts, origin, fetched,
                 last_call, post_content_result, comments_result, content_end,
                 comments_end, pauses>>

\* lines 164-169: the aggregate goes to the writer
Save ==
  /\ pc = "save"
  /\ written' = Append(written, reddit_texts)
  /\ pc' = "done"
  /\ exit_code' = 0
  /\ UNCHANGED <<argv, forum, post_limit, subreddit_name,
                 session, error, response_text,
                 post_ids, idx, reddit_texts, origin, fetched, last_call,
                 post_content_result, comments_result, content_end,
                 comments_end, pauses>>

Next ==
  \/ Main
  \/ Connect
  \/ ListHotPosts
  \/ ExtractIds
  \/ LoopNext
  \/ ContentStep
  \/ CommentsStep
  \/ Pause
  \/ Save

Spec == Init /\ [][Next]_vars

\* The run is one coroutine driven to completion by asyncio.run: a step that
\* can be taken is taken, and every awaited tool call returns or raises.
\* ExtractIds is enabled exactly when pc = "extract"; its weak fairness is
\* written out with that condition.
Fairness ==
  /\ WF_vars(Main)
  /\ WF_vars(Connect)
  /\ WF_vars(ListHotPosts)
  /\ []<>(pc # "extract") \/ []<><<ExtractIds>>_vars
  /\ WF_vars(LoopNext)
  /\ WF_vars(ContentStep)
  /\ WF_vars(CommentsStep)
  /\ WF_vars(Pause)
  /\ WF_vars(Save)

SpecLive == Init /\ [][Next]_vars /\ Fairness

\* ------------------------------------------------------------------------
\* The id extraction on generated listings
\* ------------------------------------------------------------------------

\* pieces of a listing: links, a link cut before its closing slash, a marker
\* without id, an id with a character outside [a-zA-Z0-9]
Fragments ==
  { Link(S_abc123), Link(S_xyz789), Link(S_q7),
    S_comments \o S_abc123,
    S_comments,
    S_comments \o <<"a","-","b","/">> }

RECURSIVE Flat(_)
Flat(seqs) == IF seqs = <<>> THEN <<>> ELSE Head(seqs) \o Flat(Tail(seqs))

ListingTexts ==
  { Flat(fs) : fs \in UNION { [1..n -> Fragments] : n \in 0..MaxFragments } }

ExampleListing == Link(S_abc123) \o Link(S_abc123) \o Link(S_xyz789)

\* the values of post_limit tried
Caps == (-2..MaxCap) \cup {10}

\* the command-line text of a number
NumberText(n) == IF n < 0 THEN <<"-">> \o DecimalOf(0 - n) ELSE DecimalOf(n)

\* the run between line 54 and line 59: the listing has been received
InitExtract ==
  /\ pc = "extract"
  /\ \E cap \in Caps, text \in ListingTexts \cup {ExampleListing} :
        /\ argv = <<S_prog, S_url, NumberText(cap)>>
        /\ post_limit = cap
        /\ response_text = text
        /\ forum = [listings |-> {Result(<<text>>)}, contents |-> {},
                    comments |-> {}]
        /\ last_call = [tool |-> "get_subreddit_hot_posts",
                        limit |-> IF cap < PageSize THEN cap ELSE PageSize]
  /\ subreddit_name = extract_subreddit_name(S_url).name
  /\ session = "open"
  /\ error = NoError
  /\ exit_code = -1
  /\ post_ids = <<>>
  /\ idx = 0
  /\ reddit_texts = <<>>
  /\ origin = <<>>
  /\ fetched = <<>>
  /\ post_content_result = NoResult
  /\ comments_result = NoResult
  /\ content_end = "none"
  /\ comments_end = "none"
  /\ pauses = 0
  /\ written = <<>>

NextExtract == ExtractIds

SpecExtract == InitExtract /\ [][NextExtract]_vars

\* ------------------------------------------------------------------------
\* The start of the run on generated forum references
\* ------------------------------------------------------------------------

UrlChars == {"r", "/", "d", ":", "?", "["}

\* the references of exactly n characters
RECURSIVE UrlsOf(_)
UrlsOf(n) ==
  IF n = 0 THEN {<<>>}
  ELSE {<<c>> \o u : c \in UrlChars, u \in UrlsOf(n - 1)}

S_www_url ==
  <<"h","t","t","p","s",":","/","/","w","w","w",".","r","e","d","d","i","t",
    ".","c","o","m","/","r","/","d","a","h","a","b","/">>

S_dahab == <<"d","a","h","a","b">>

\* every reference of up to MaxUrlLen characters, the empty one included,
\* and the two forms of the usage text
Urls == UNION {UrlsOf(n) : n \in 0..MaxUrlLen} \cup {S_url, S_www_url}

InitParse ==
  /\ pc = "main"
  /\ argv \in {<<S_prog, u>> : u \in Urls}
  /\ forum = SmallForum
  /\ InitRun

NextParse == Main

SpecParse == InitParse /\ [][NextParse]_vars

\* ------------------------------------------------------------------------
\* The comments step on generated comment trees
\* ------------------------------------------------------------------------

NodeBodies ==
  { Absent, JStr(S_hello), JStr(Padded(S_nice)), JStr(S_deleted),
    JStr(S_blank) }

\* the comment forests and trees of exactly n nodes
RECURSIVE ForestsOf(_)
RECURSIVE TreesOf(_)

ForestsOf(n) ==
  IF n = 0 THEN {<<>>}
  ELSE UNION { { <<t>> \o f : t \in TreesOf(k), f \in ForestsOf(n - k) } :
               k \in 1..n }

\* a comment without replies has no "replies" key, or the empty string
TreesOf(n) ==
  IF n = 1
    THEN { Comment(b, Absent) : b \in NodeBodies }
           \cup { Comment(JStr(S_hello), JStr(S_empty)) }
    ELSE { Comment(b, JList(f)) : b \in NodeBodies, f \in ForestsOf(n - 1) }

CommentTrees ==
  UNION { { JList(f) : f \in ForestsOf(n) } : n \in 0..MaxNodes }
  \cup UNION { TreesOf(n) : n \in 1..MaxNodes }

\* the run at line 105 of the only id of a batch, whose content was empty
InitFlatten ==
  /\ pc = "comments"
  /\ argv = <<S_prog, S_url>>
  /\ \E tree \in CommentTrees :
        forum = [listings |-> {Result(<<Link(S_abc123)>>)},
                 contents |-> {Result(<<>>)},
                 comments |-> {Result(<<Text(FALSE, tree)>>)}]
  /\ post_limit = DefaultLimit
  /\ subreddit_name = extract_subreddit_name(S_url).name
  /\ session = "open"
  /\ error = NoError
  /\ exit_code = -1
  /\ response_text = Link(S_abc123)
  /\ post_ids = <<S_abc123>>
  /\ idx = 1
  /\ reddit_texts = <<>>
  /\ origin = <<>>
  /\ fetched = <<S_abc123>>
  /\ last_call = [tool |-> "get_post_content", post_id |-> S_abc123]
  /\ post_content_result = Result(<<>>)
  /\ comments_result = NoResult
  /\ content_end = "empty"
  /\ comments_end = "none"
  /\ pauses = 0
  /\ written = <<>>

NextFlatten == CommentsStep

SpecFlatten == InitFlatten /\ [][NextFlatten]_vars

\* ------------------------------------------------------------------------
\* Vocabulary of the properties
\* ------------------------------------------------------------------------

\* the processing of the id at position idx has ended
IdFinished == pc \in {"loop", "pause"} /\ idx >= 1

\* the latest tool call was get_post_comments for the current id
CommentsAsked ==
  last_call = [tool |-> "get_post_comments", post_id |-> post_ids[idx]]

Returned(r) == r.kind = "result"
HasText(r) == Returned(r) /\ r.content # <<>>
IsSentinel(r) == HasText(r) /\ r.content[1].marker
Unparsed(r) == HasText(r) /\ ~r.content[1].marker /\ r.content[1].doc = Invalid
Parsed(r) == HasText(r) /\ ~r.content[1].marker /\ r.content[1].doc # Invalid
DocOf(r) == r.content[1].doc

\* title and body can be read off the record without an exception
Readable(doc) ==
  /\ doc.t = "dict"
  /\ HasKey(doc, "title") => doc.title.t = "str"
  /\ Truthy(body_text_of(doc)) => body_text_of(doc).t = "str"

\* the content step ran to its end: no exception, no sentinel
ContentCompleted(r) ==
  \/ Returned(r) /\ r.content = <<>>
  \/ Unparsed(r)
  \/ Parsed(r) /\ Readable(DocOf(r))

\* positions of the entries of reddit_texts appended for the id at position i
EntriesOf(i, kind) ==
  SelectSeq([k \in DOMAIN origin |-> k],
            LAMBDA k : origin[k].idx = i /\ origin[k].kind = kind)

TextsAt(positions) == [k \in DOMAIN positions |-> reddit_texts[positions[k]]]

IsPrefix(a, b) == Len(a) <= Len(b) /\ a = SubSeq(b, 1, Len(a))

Ended == pc \in {"exit", "raised", "done"}

\* ------------------------------------------------------------------------
\* C1
\* ------------------------------------------------------------------------

C2_EveryIdFetchedOnce ==
  /\ IsPrefix(fetched, post_ids)
  /\ Len(fetched) = IF pc = "content" THEN idx - 1 ELSE idx
  /\ pc = "raised" => fetched = <<>> /\ idx = 0
  /\ pc \in {"save", "done"} => fetched = post_ids
  /\ pc = "loop" => ENABLED LoopNext
  /\ pc = "content" => ENABLED ContentStep
  /\ pc = "comments" => ENABLED CommentsStep
  /\ pc = "pause" => ENABLED Pause

\* the third of three ids raised after the second was collected, and all
\* three have been fetched once
C2_Witness ==
  /\ IdFinished
  /\ idx = 3
  /\ Len(post_ids) = 3
  /\ post_content_result.kind = "raise"
  /\ EntriesOf(2, "title") # <<>>
  /\ fetched = post_ids

\* ------------------------------------------------------------------------
\* C3
\* ------------------------------------------------------------------------

\* C3 as stated: a run over n ids makes exactly floor(n/10) pauses, and the
\* pause follows the processing of every tenth id whatever its outcome.
C3_PauseAfterEveryTenth ==
  /\ pc \in {"save", "done"} => pauses = Len(post_ids) \div PauseEvery
  /\ (pc = "loop" /\ idx >= 1) => pauses = idx \div PauseEvery

\* ------------------------------------------------------------------------
\* Comment trees, by position
\* ------------------------------------------------------------------------

\* the replies of a comment, or the elements of a sequence of comments
Children(v) ==
  IF v.t = "list" THEN v.items
  ELSE IF v.t = "dict" /\ v.replies.t = "list" THEN v.replies.items
  ELSE <<>>

\* the positions of a tree: the paths of child numbers from the top
RECURSIVE PathsOf(_)
PathsOf(v) ==
  {<<>>} \cup
  UNION { { <<i>> \o p : p \in PathsOf(Children(v)[i]) } :
          i \in DOMAIN Children(v) }

RECURSIVE At(_, _)
At(v, path) ==
  IF path = <<>> THEN v ELSE At(Children(v)[Head(path)], Tail(path))

\* p comes no later than q in depth-first pre-order: p is an ancestor of q,
\* or p branches off to the left of q
Precedes(p, q) ==
  \/ IsPrefix(p, q)
  \/ \E n \in 1..Len(p) :
        /\ n <= Len(q)
        /\ SubSeq(p, 1, n - 1) = SubSeq(q, 1, n - 1)
        /\ p[n] < q[n]

RECURSIVE InPreorder(_)
InPreorder(paths) ==
  IF paths = {} THEN <<>>
  ELSE LET first == CHOOSE p \in paths : \A q \in paths : Precedes(p, q)
       IN <<first>> \o InPreorder(paths \ {first})

\* the body a comment contributes: trimmed, non-empty and no tombstone
KeptBody(v) ==
  IF v.t = "dict" /\ v.body.t = "str" /\ strip(v.body.s) # <<>>
     /\ strip(v.body.s) \notin {S_deleted, S_removed}
    THEN <<strip(v.body.s)>> ELSE <<>>

\* the kept bodies of a tree in depth-first pre-order
PreorderBodies(v) ==
  LET order == InPreorder(PathsOf(v))
  IN Flat([k \in DOMAIN order |-> KeptBody(At(v, order[k]))])

\* a CommentNode: an optional string body and a sequence of CommentNodes as
\* replies (absent, or the empty string Reddit sends for none)
RECURSIVE WellFormedNode(_)
WellFormedNode(v) ==
  /\ v.t = "dict"
  /\ v.body = Absent \/ v.body.t = "str"
  /\ \/ v.replies = Absent
     \/ v.replies = JStr(S_empty)
     \/ /\ v.replies.t = "list"
        /\ \A i \in DOMAIN v.replies.items : WellFormedNode(v.replies.items[i])

WellFormedTree(v) ==
  \/ WellFormedNode(v)
  \/ v.t = "list" /\ \A i \in DOMAIN v.items : WellFormedNode(v.items[i])

\* ------------------------------------------------------------------------
\* C4
\* ------------------------------------------------------------------------

KindRank(kind) ==
  CASE kind = "title" -> 1 [] kind = "body" -> 2 [] kind = "comment" -> 3

\* C4: the ids are fetched in batch order; every entry of the aggregate
\* comes from an id at or before the current one, entries of an earlier id
\* precede those of a later id, and within an id the order is title (at most
\* one), body (at most one), comments; the title entry is the trimmed title
\* of the record and the comment entries are the kept bodies of the tree in
\* depth-first pre-order.
C4_EntriesInBatchOrder ==
  /\ IsPrefix(fetched, post_ids)
  /\ Len(origin) = Len(reddit_texts)
  /\ \A k \in DOMAIN origin : origin[k].idx \in 1..idx
  /\ \A j, k \in DOMAIN origin :
       j < k =>
         \/ origin[j].idx < origin[k].idx
         \/ /\ origin[j].idx = origin[k].idx
            /\ KindRank(origin[j].kind) <= KindRank(origin[k].kind)
            /\ origin[j].kind = origin[k].kind => origin[k].kind = "comment"
  /\ (Parsed(post_content_result) /\ EntriesOf(idx, "title") # <<>>) =>
       TextsAt(EntriesOf(idx, "title"))
         = <<strip(DocOf(post_content_result).title.s)>>
  /\ (Parsed(comments_result) /\ WellFormedTree(DocOf(comments_result))) =>
       TextsAt(EntriesOf(idx, "comment"))
         = PreorderBodies(DocOf(comments_result))

\* three ids: the first gave title, body and comments, the second nothing,
\* the third a title and comments
C4_Witness ==
  /\ IdFinished
  /\ idx = 3
  /\ EntriesOf(1, "title") # <<>>
  /\ EntriesOf(1, "body") # <<>>
  /\ Len(EntriesOf(1, "comment")) >= 2
  /\ \A k \in DOMAIN origin : origin[k].idx # 2
  /\ EntriesOf(3, "title") # <<>>
  /\ Len(EntriesOf(3, "comment")) >= 2

\* ------------------------------------------------------------------------
\* C5
\* ------------------------------------------------------------------------

\* the comments fetch failed: a raise, the sentinel, or text that does not parse
CommentsFetchFailed(r) == r.kind = "raise" \/ IsSentinel(r) \/ Unparsed(r)

\* C5: a comments step whose fetch fails leaves the aggregate as the content
\* step of the id left it, and the processing of the id ends normally.
C5_FailedCommentsKeepAggregate ==
  [][(pc = "comments" /\ CommentsFetchFailed(comments_result'))
       => /\ reddit_texts' = reddit_texts
          /\ origin' = origin
          /\ pc' \in {"loop", "pause"}]_vars

\* the comments of the second id raised after its title and body were added
C5_Witness ==
  /\ IdFinished
  /\ idx = 2
  /\ comments_result.kind = "raise"
  /\ EntriesOf(1, "comment") # <<>>
  /\ EntriesOf(2, "title") # <<>>
  /\ EntriesOf(2, "body") # <<>>
  /\ origin[Len(origin)] = [idx |-> 2, kind |-> "body"]

\* ------------------------------------------------------------------------
\* C6
\* ------------------------------------------------------------------------

\* C6 as stated: the walk over a parsed comment tree never raises, and the
\* kept bodies of all its well-formed nodes are appended in order, whatever
\* malformed nodes the tree holds.
C6_MalformedNodesSkipped ==
  (IdFinished /\ Parsed(comments_result)) =>
     /\ comments_end = "ok"
     /\ TextsAt(EntriesOf(idx, "comment")) = PreorderBodies(DocOf(comments_result))

\* ------------------------------------------------------------------------
\* C7
\* ------------------------------------------------------------------------

\* C7 as stated: a body entry is the trimmed body, is not empty and is,
\* compared case-insensitively, none of "none", "n/a", "[deleted]",
\* "[removed]"; so a record with a title and such a body contributes the title
\* alone.
C7_SentinelBodySuppressed ==
  \A k \in DOMAIN origin :
     origin[k].kind = "body" =>
        /\ reddit_texts[k] # <<>>
        /\ lower(reddit_texts[k]) \notin {S_none, S_na, S_deleted, S_removed}

\* ------------------------------------------------------------------------
\* C8
\* ------------------------------------------------------------------------

NoDuplicates(xs) == \A j, k \in DOMAIN xs : j # k => xs[j] # xs[k]

FirstIndex(xs, x) ==
  CHOOSE k \in DOMAIN xs : xs[k] = x /\ \A j \in 1..(k - 1) : xs[j] # x

\* ids lists ids of the matches in the order of their first occurrence, and
\* leaves out none that occurs before one it lists
FirstSeenOrder(ids, matches) ==
  /\ \A k \in DOMAIN ids : ids[k] \in Range(matches)
  /\ \A j, k \in DOMAIN ids :
       j < k => FirstIndex(matches, ids[j]) < FirstIndex(matches, ids[k])
  /\ \A k \in DOMAIN ids :
       \A m \in 1..(FirstIndex(matches, ids[k]) - 1) :
          matches[m] \in {ids[j] : j \in 1..(k - 1)}

\* C8 as stated: for every listing and every cap the batch has no duplicate,
\* is in first-occurrence order and is no longer than the cap.
C8_BatchWithinAnyCap ==
  pc = "loop" =>
    /\ NoDuplicates(post_ids)
    /\ FirstSeenOrder(post_ids, findall(response_text))
    /\ Len(post_ids) <= post_limit

\* C8, amended: for every listing and every cap the batch has no duplicate
\* and is in first-occurrence order; for every cap >= 0 it is no longer than
\* the cap; the listing with abc123 twice and xyz789 once gives, with cap 10,
\* exactly [abc123, xyz789].
C8_BatchWithinCap ==
  pc = "loop" =>
    /\ NoDuplicates(post_ids)
    /\ FirstSeenOrder(post_ids, findall(response_text))
    /\ post_limit >= 0 => Len(post_ids) <= post_limit
    /\ (response_text = ExampleListing /\ post_limit = 10)
         => post_ids = <<S_abc123, S_xyz789>>

\* a listing of two distinct ids, one of them twice, cut to one by the cap
C8_Witness ==
  /\ pc = "loop"
  /\ post_limit = 1
  /\ Cardinality(Range(findall(response_text))) = 2
  /\ Len(findall(response_text)) = 3
  /\ Len(post_ids) = 1

\* ------------------------------------------------------------------------
\* C9
\* ------------------------------------------------------------------------

DeletedWithReply ==
  Comment(JStr(S_deleted), JList(<<Comment(JStr(S_hello), Absent)>>))

\* C9: on a well-formed comment tree, or sequence of trees, the walk does
\* not raise and the bodies appended are the trimmed bodies that are not
\* empty and no tombstone, in depth-first pre-order; a comment whose own body
\* is dropped does not hide its replies.
C9_FlattenIsPreorder ==
  (IdFinished /\ Parsed(comments_result)
     /\ WellFormedTree(DocOf(comments_result))) =>
       /\ comments_end = "ok"
       /\ TextsAt(EntriesOf(idx, "comment"))
            = PreorderBodies(DocOf(comments_result))
       /\ DocOf(comments_result) \in {DeletedWithReply, JList(<<DeletedWithReply>>)}
            => reddit_texts = <<S_hello>>

\* a deleted top-level comment with the reply "hello" has given "hello"
C9_Witness ==
  /\ IdFinished
  /\ Parsed(comments_result)
  /\ DocOf(comments_result) = JList(<<DeletedWithReply>>)
  /\ reddit_texts = <<S_hello>>

\* ------------------------------------------------------------------------
\* C10
\* ------------------------------------------------------------------------

\* the run has ended without handing the aggregate to the writer
EndedUnwritten == pc \in {"exit", "raised"}

\* C10 as stated: a run that ends without handing the aggregate to the
\* writer never had a session (the argument was missing or the session could
\* not be established), and nothing had been aggregated; no error after the
\* session is established is fatal.
C10_FatalOnlyWithoutSession ==
  EndedUnwritten => session = "none" /\ reddit_texts = <<>>

\* C10, amended: no error of get_post_content or get_post_comments, nor of
\* the handling of their results, is fatal. A run ends without handing the
\* aggregate to the writer only when the argument is missing, the post limit
\* is no integer, the forum reference is rejected by the URL parser, the
\* session cannot be established or the listing call raises; in each case no
\* id has been fetched and the aggregate is empty. A run that ends otherwise
\* has handed its aggregate to the writer.
C10_FatalOnlyBeforeTheLoop ==
  /\ EndedUnwritten =>
       /\ written = <<>>
       /\ reddit_texts = <<>>
       /\ fetched = <<>>
       /\ idx = 0
       /\ pc = "exit" => Len(argv) < 2 /\ error = NoError
       /\ pc = "raised" => error.at \in {"main", "reference", "connect", "listing"}
  /\ error.at \notin {"content", "comments"}
  /\ pc = "done" => written = <<reddit_texts>> /\ error = NoError

\* the listing call raised on an established session and ended the run
C10_Witness ==
  /\ pc = "raised"
  /\ error = [exc |-> "McpError", at |-> "listing"]
  /\ session = "closed"
  /\ last_call.tool = "get_subreddit_hot_posts"

\* ------------------------------------------------------------------------
\* C11
\* ------------------------------------------------------------------------

\* C11: the aggregate is handed to the writer at most once, and only when
\* every id of the batch has been processed: whenever something has been
\* written the loop is over, every id has been fetched and what was written
\* is the whole aggregate; the writer is invoked from the save step alone,
\* and once something is written the aggregate does not change.
C11_WrittenOnceAtTheEnd ==
  /\ [](/\ Len(written) <= 1
        /\ written # <<>> =>
             /\ pc = "done"
             /\ idx = Len(post_ids)
             /\ fetched = post_ids
             /\ written = <<reddit_texts>>)
  /\ [][/\ written' # written =>
             pc = "save" /\ written = <<>> /\ idx = Len(post_ids)
        /\ written # <<>> => reddit_texts' = reddit_texts]_vars

\* a run over three ids has handed an aggregate of several entries over
C11_Witness ==
  /\ pc = "done"
  /\ Len(post_ids) = 3
  /\ Len(reddit_texts) >= 4
  /\ written = <<reddit_texts>>

\* ------------------------------------------------------------------------
\* C12
\* ------------------------------------------------------------------------

\* the run is inside the two "async with" blocks
InSession == pc \in {"listing", "extract", "loop", "content", "comments", "pause"}

\* the step issues a tool call
IssuesCall == last_call' # last_call

\* C12: the session is acquired once, by the connect step, and never again;
\* it is open exactly while the run is between the connect step and the end
\* of the loop, and it is not open when the run has ended, however it ended;
\* a tool call is issued only on the open session, and the step that issues
\* it also receives its answer, so that no second call is made meanwhile.
C12_SessionScoped ==
  /\ [](/\ InSession <=> session = "open"
        /\ Ended => session # "open"
        /\ pc \in {"save", "done"} => session = "closed")
  /\ [][/\ session' # session =>
             \/ session = "none" /\ session' = "open" /\ pc = "connect"
             \/ session = "open" /\ session' = "closed"
        /\ IssuesCall =>
             /\ session = "open"
             /\ pc \in {"listing", "content", "comments"}
             /\ pc' # pc
             /\ pc = "listing" => pc' = "raised" \/ response_text' \in
                   {r.content[1] : r \in {x \in forum.listings : HasText(x)}}
                     \cup {<<>>}
             /\ pc = "content" => post_content_result' \in forum.contents
             /\ pc = "comments" => comments_result' \in forum.comments]_vars

\* the loop over three ids ended on an id whose content call failed, and the
\* session has been released
C12_Witness ==
  /\ pc = "save"
  /\ session = "closed"
  /\ Len(post_ids) = 3
  /\ last_call = [tool |-> "get_post_content", post_id |-> post_ids[3]]

\* ------------------------------------------------------------------------
\* C13
\* ------------------------------------------------------------------------

\* the session is open and the listing call has returned
ListingReceived == session = "open" /\ pc = "extract"

\* the run has ended by handing the aggregate over, every id fetched
Completed ==
  /\ pc = "done"
  /\ error = NoError
  /\ exit_code = 0
  /\ idx = Len(post_ids)
  /\ fetched = post_ids
  /\ written = <<reddit_texts>>

\* C13: once the session is open and the listing call has returned, the run
\* eventually has fetched every id of the batch and handed the aggregate to
\* the writer, without an exception, whatever the tool calls of the posts
\* return or raise.
C13_RunCompletes == ListingReceived ~> Completed

\* a completed run over three ids: a title from the first, a title and a
\* body from the second, nothing from the third, whose content call was the
\* last call of the run
C13_Witness ==
  /\ Completed
  /\ Len(post_ids) = 3
  /\ Len(EntriesOf(1, "title")) = 1 /\ EntriesOf(1, "body") = <<>>
  /\ Len(EntriesOf(2, "title")) = 1 /\ Len(EntriesOf(2, "body")) = 1
  /\ \A k \in DOMAIN origin : origin[k].idx # 3
  /\ last_call = [tool |-> "get_post_content", post_id |-> post_ids[3]]

\* ------------------------------------------------------------------------
\* C14
\* ------------------------------------------------------------------------

\* the kinds of entry a step appends
KindsOf(step) ==
  IF step = "content" THEN {"title", "body"}
  ELSE IF step = "comments" THEN {"comment"}
  ELSE {}

\* C14: in every step the aggregate before the step is a prefix of the
\* aggregate after it; it grows only in the content step and in the comments
\* step, and what it gains there belongs to the id being processed: title and
\* body in the content step, comment bodies in the comments step.
C14_AppendOnly ==
  [][/\ IsPrefix(reddit_texts, reddit_texts')
     /\ reddit_texts' # reddit_texts =>
          /\ pc \in {"content", "comments"}
          /\ idx' = idx
          /\ \A k \in (Len(reddit_texts) + 1)..Len(reddit_texts') :
                origin'[k].idx = idx /\ origin'[k].kind \in KindsOf(pc)]_vars

\* the second id has added a title, a body and a comment behind the entries
\* of the first
C14_Witness ==
  /\ pc = "loop"
  /\ idx = 2
  /\ \E k \in DOMAIN origin : origin[k].idx = 1
  /\ EntriesOf(2, "title") # <<>>
  /\ EntriesOf(2, "body") # <<>>
  /\ EntriesOf(2, "comment") # <<>>

\* ------------------------------------------------------------------------
\* C15
\* ------------------------------------------------------------------------

\* a string with at least one character that is no whitespace
NonBlank(text) ==
  /\ text # <<>>
  /\ \E i \in DOMAIN text : text[i] \notin Whitespace

\* C15: every entry of the aggregate is a string that is neither empty nor
\* made of whitespace only, whatever the titles, bodies and comment bodies
\* of the answers are.
C15_EntriesNonBlank ==
  \A k \in DOMAIN reddit_texts : NonBlank(reddit_texts[k])

\* an id whose title, body and first comment came surrounded by whitespace
\* has given its three entries
C15_Witness ==
  /\ pc = "loop"
  /\ idx >= 1
  /\ Parsed(post_content_result)
  /\ DocOf(post_content_result) =
       PostDoc(JStr(Padded(S_Hi)), JStr(Padded(S_Body)), Absent, Absent)
  /\ TextsAt(EntriesOf(idx, "title")) = <<S_Hi>>
  /\ TextsAt(EntriesOf(idx, "body")) = <<S_Body>>
  /\ Parsed(comments_result)
  /\ TextsAt(EntriesOf(idx, "comment")) = <<S_nice, S_hello, S_Hi>>

\* ------------------------------------------------------------------------
\* C16
\* ------------------------------------------------------------------------

\* the answer is text that json.loads accepts but that is no record
NoRecord(r) == Parsed(r) /\ DocOf(r).t # "dict"

ReferenceHandled == pc \in {"connect", "raised"} /\ Len(argv) = 2

\* C17 as stated: for every non-empty forum reference the parser does not
\* fail and the name it returns is not empty; a reference that begins with
\* "r/" gives what follows the prefix.
C17_NameNeverEmpty ==
  (ReferenceHandled /\ argv[2] # <<>>) =>
    /\ error = NoError
    /\ subreddit_name # <<>>
    /\ startswith(argv[2], <<"r", "/">>) =>
         subreddit_name = slice_from(argv[2], 2)

\* ------------------------------------------------------------------------
\* C18
\* ------------------------------------------------------------------------

\* what the step appends to the aggregate
Gained ==
  SubSeq(reddit_texts', Len(reddit_texts) + 1, Len(reddit_texts'))

\* C18: the comments step of an id appends either nothing or every body the
\* walk of the answer yields: on a well-formed tree the kept bodies in
\* pre-order, and nothing when the walk raises on a node, whatever bodies it
\* had collected before that node.
C18_CommentsAllOrNothing ==
  [][pc = "comments" =>
       /\ IsPrefix(reddit_texts, reddit_texts')
       /\ \/ Gained = <<>>
          \/ /\ Parsed(comments_result')
             /\ comments_end' = "ok"
             /\ Gained =
                  extract_comment_bodies(DocOf(comments_result')).bodies
       /\ comments_end' \in {"raised", "walk_raised", "unparsed", "sentinel"}
            => Gained = <<>>
       /\ (Parsed(comments_result') /\ WellFormedTree(DocOf(comments_result')))
            => Gained = PreorderBodies(DocOf(comments_result'))]_vars

\* the comment after "nice" has no string body: the walk raised and the id
\* has no comment entry, "nice" included, behind its title
C18_Witness ==
  /\ pc = "loop"
  /\ idx >= 1
  /\ comments_end = "walk_raised"
  /\ DocOf(comments_result) =
       JList(<<Comment(JStr(S_nice), Absent), Comment(JNull, Absent),
               Comment(JStr(S_hello), Absent)>>)
  /\ EntriesOf(idx, "title") # <<>>
  /\ EntriesOf(idx, "comment") = <<>>

\* ------------------------------------------------------------------------
\* C19
\* ------------------------------------------------------------------------

\* C19: the run is at a pause only behind the comments step of an id whose
\* position is a multiple of ten; there are never more pauses than completed
\* tens of the batch; a pause is one step that issues no tool call, fetches
\* nothing and returns to the loop, and the only way into a pause is from the
\* comments step.
C19_PauseOnlyAfterTenth ==
  /\ [](/\ pc = "pause" =>
             /\ idx >= 1
             /\ idx % PauseEvery = 0
             /\ CommentsAsked
             /\ comments_end # "none"
        /\ pauses <= idx \div PauseEvery
        /\ pauses <= Len(post_ids) \div PauseEvery)
  /\ [][/\ pauses' # pauses =>
             /\ pc = "pause"
             /\ pauses' = pauses + 1
             /\ pc' = "loop"
             /\ ~IssuesCall
             /\ fetched' = fetched
             /\ idx' = idx
        /\ (pc' = "pause" /\ pc # "pause") => pc = "comments"
        /\ pc = "pause" => pauses' # pauses]_vars

\* the tenth id is the last of the batch, and the pause after it was taken
C19_Witness ==
  /\ pc = "loop"
  /\ idx = PauseEvery
  /\ Len(post_ids) = PauseEvery
  /\ pauses = 1
  /\ CommentsAsked

====
